---- MODULE Spec2Model ----
(***************************************************************************)
(* kvdb-file: a key-value store that keeps every key as one file           *)
(* <root>/<column>/0x<hex(key)> and mirrors all data in an in-memory       *)
(* engine (kvdb_memorydb::InMemory).  The model follows src/src/lib.rs.    *)
(*                                                                         *)
(* Bytes are integers 0..255.  A key, a value and a file name are          *)
(* sequences of bytes (a file name is the UTF-8 text of the name).         *)
(***************************************************************************)
EXTENDS Integers, Sequences, FiniteSets, TLC

VARIABLES
    disk,      \* disk[c]: the directory <root>/<c>: [exists, ents: name -> entry]
    numCols,   \* num_cols of the open store
    opened,    \* whether open returned a store (FALSE after a panic in open)
    mirror,    \* InFile.in_memory: column -> (key -> value)
    txn,       \* the DBTransaction the caller is filling (transaction.ops)
    ret,       \* the most recent event: the call and what it returned
    prev,      \* history: the store and the disk as a write or open call found them
    clean,     \* history: no write failed and nothing outside the store touched the disk since open
    shadow,    \* history: the mirror loaded by open with the Ok transactions applied in order
    steps,     \* number of operations staged and of changes made to the disk from outside
    cstate,    \* path codec runs: the input and the results of key2file / file2key
    conc       \* two write calls that run at once: their positions and the order of their steps

vars == <<disk, numCols, opened, mirror, txn, ret, prev, clean, shadow, steps, cstate,
          conc>>

----------------------------------------------------------------------------
(* Records *)

\* a directory entry: a regular file with its contents, or a sub-directory
File(bytes) == [kind |-> "file", data |-> bytes]
SubDir == [kind |-> "dir"]

\* the directory <root>/<column>: whether it exists, and its entries by name
Directory(there, entries) == [exists |-> there, ents |-> entries]

\* kvdb::DBOp
Insert(c, k, v) == [op |-> "Insert", col |-> c, key |-> k, value |-> v]
Delete(c, k) == [op |-> "Delete", col |-> c, key |-> k]
DeletePrefix(c, p) == [op |-> "DeletePrefix", col |-> c, prefix |-> p]

\* the path <root>/<column>/<file name>
PathOf(c, nm) == [col |-> c, name |-> nm]

\* a run of the path codec: the step, its inputs and the decoded key
CodecRun(step, c, k, file, decoded) ==
    [op |-> step, col |-> c, key |-> k, path |-> file, out |-> decoded]

\* the most recent event: a write with its transaction and result, any other call
WriteReturned(transaction, result) == [call |-> "write", ops |-> transaction, res |-> result]
Returned(what, result) == [call |-> what, res |-> result]
Event(what) == [call |-> what]

\* a write call that runs concurrently with another: its transaction, its
\* result ("running" until it returns), the number of operations whose disk
\* side is over, whether file.is_file() held for the Delete under way, and
\* the file that the fs::write under way holds open: "closed" before
\* File::create, "open" after it, "unlinked" once the file it created or
\* truncated was removed from the directory
WriteCall(transaction, result, n, found, handle) ==
    [ops |-> transaction, res |-> result, done |-> n, seen |-> found, fd |-> handle]

\* the concurrent calls, whether a call took a step while the other was
\* between its first step and its return, and the operations in the order
\* the engine applied them
Concurrent(cs, overlapped, inMirror) ==
    [calls |-> cs, overlap |-> overlapped, morder |-> inMirror]
NoCalls == Concurrent(<<>>, FALSE, <<>>)

\* the outcome of the disk side of a write, and of open
Outcome(d, result) == [disk |-> d, res |-> result]
OpenOutcome(d, m, result) == [disk |-> d, mirror |-> m, res |-> result]

\* the store and the disk as a call found them
SnapshotOf(d, n, o, m, c) ==
    [disk |-> d, numCols |-> n, opened |-> o, mirror |-> m, clean |-> c, valid |-> TRUE]
NoPrev == [valid |-> FALSE]

\* Option, io::Result, and a panic
None == [tag |-> "None"]
Some(x) == [tag |-> "Some", val |-> x]
Panic == [tag |-> "Panic"]
Ok(x) == [tag |-> "Ok", val |-> x]
Err == [tag |-> "Err"]

----------------------------------------------------------------------------
(* Bounds and input sets *)

\* operations staged plus changes made to the disk from outside, per behaviour
MaxSteps == 2
\* bytes per key and characters per file name given to the path codec
MaxKeyLen == 2
MaxNameLen == 4

\* the column directories that may exist under the root, and open's num_cols
AllCols == {0, 1}
NumColsChoices == {1, 2}
\* the columns reads ask for: 2 is a column of no store
ReadCols == AllCols \cup {2}
Keys == {<<10>>, <<10, 255>>, <<255>>}
Values == {<<1>>, <<2>>}
Prefixes == {<<>>, <<10>>, <<255>>}
\* what transactions name per column: column 0 takes every key and prefix,
\* column 1 one key and the empty prefix
ColKeys(c) == IF c = 0 THEN Keys ELSE {<<10>>}
ColPrefixes(c) == IF c = 0 THEN Prefixes ELSE {<<>>}

\* what is written into a column directory from outside the store:
\* "a" (too short to slice), "zz0a" (no 0x, hex after two bytes), "0xg" (no hex)
\* and "0x0A" (the upper-case spelling of the file name of key 0a)
ForeignNames == {<<97>>, <<122, 122, 48, 97>>, <<48, 120, 103>>, <<48, 120, 48, 65>>}
ForeignValue == <<3>>

\* inputs of the path codec: key bytes, and the characters of file names
\* "0", "x", "a", "A", "g" and the two-byte "e-acute"
CodecBytes == {0, 10, 171, 255}
NameChars == {<<48>>, <<120>>, <<97>>, <<65>>, <<103>>, <<195, 169>>}

----------------------------------------------------------------------------
(* Finite maps *)

EmptyMap == <<>>

MapPut(m, k, v) == [x \in (DOMAIN m) \cup {k} |-> IF x = k THEN v ELSE m[x]]

MapRemove(m, ks) == [x \in (DOMAIN m) \ ks |-> m[x]]

----------------------------------------------------------------------------
(* Byte strings *)

starts_with(s, p) == Len(p) <= Len(s) /\ SubSeq(s, 1, Len(p)) = p

\* Ord for Vec<u8>: lexicographic, a proper prefix sorts first
RECURSIVE LexLess(_, _)
LexLess(a, b) ==
    IF b = <<>> THEN FALSE
    ELSE IF a = <<>> THEN TRUE
    ELSE IF Head(a) # Head(b) THEN Head(a) < Head(b)
    ELSE LexLess(Tail(a), Tail(b))

\* the least of a non-empty finite set of byte strings
MinKey(S) == CHOOSE x \in S : \A y \in S \ {x} : LexLess(x, y)

----------------------------------------------------------------------------
(* Path codec: lib.rs key2file / file2key over hex::encode / hex::decode *)

\* the two bytes of "0x"
Prefix0x == <<48, 120>>

\* hex::encode's alphabet "0123456789abcdef"
HexDigit(n) == IF n < 10 THEN 48 + n ELSE 87 + n

RECURSIVE hex_encode(_)
hex_encode(bytes) ==
    IF bytes = <<>> THEN <<>>
    ELSE <<HexDigit(Head(bytes) \div 16), HexDigit(Head(bytes) % 16)>>
             \o hex_encode(Tail(bytes))

\* hex::decode's digit value: 0-9, a-f and A-F; -1 for any other byte
hex_val(ch) ==
    IF ch \in 48..57 THEN ch - 48
    ELSE IF ch \in 97..102 THEN ch - 87
    ELSE IF ch \in 65..70 THEN ch - 55
    ELSE -1

RECURSIVE hex_pairs(_)
hex_pairs(s) ==
    IF s = <<>> THEN <<>>
    ELSE <<16 * hex_val(s[1]) + hex_val(s[2])>> \o hex_pairs(Tail(Tail(s)))

\* hex::decode: Err (None here) on odd length or on a byte that is no hex digit
hex_decode(s) ==
    IF Len(s) % 2 # 0 THEN None
    ELSE IF \E i \in 1..Len(s) : hex_val(s[i]) = -1 THEN None
    ELSE Some(hex_pairs(s))

\* &name[2..] is defined when byte offset 2 is inside the name and on a char boundary
is_char_boundary2(name) ==
    \/ Len(name) = 2
    \/ Len(name) > 2 /\ name[3] \notin 128..191

\* key2file without the "0x" in front of the hex digits
key2fileBare(col, key) == PathOf(col, hex_encode(key))

\* the path <root>/<col>/0x<hex(key)>
key2file(col, key) == PathOf(col, Prefix0x \o hex_encode(key))

\* the key of a path, from its file name; a slice out of range panics
file2key(path) ==
    IF ~is_char_boundary2(path.name) THEN Panic
    ELSE hex_decode(SubSeq(path.name, 3, Len(path.name)))

----------------------------------------------------------------------------
(* The file system under <root> *)

NoDirectory == Directory(FALSE, EmptyMap)

\* Path::is_file
is_file(d, path) ==
    /\ d[path.col].exists
    /\ path.name \in DOMAIN d[path.col].ents
    /\ d[path.col].ents[path.name].kind = "file"

\* the names of the regular files fs::read_dir lists in <root>/<col>
FileNames(d, col) ==
    {nm \in DOMAIN d[col].ents : d[col].ents[nm].kind = "file"}

\* fs::create_dir_all
create_dir_all(d, col) ==
    [d EXCEPT ![col] = Directory(TRUE, d[col].ents)]

\* fs::remove_file for each of the names
RemoveFiles(d, col, names) ==
    [d EXCEPT ![col].ents = MapRemove(d[col].ents, names)]

----------------------------------------------------------------------------
(* The disk side of write: one DBOp; the possible outcomes [disk, res]    *)

\* DiskInsert that calls fs::create_dir_all on the column directory first
DiskInsertCreatesDir(d, op) ==
    LET file == key2file(op.col, op.key)
    IN  {Outcome([create_dir_all(d, op.col) EXCEPT
                      ![op.col].ents = MapPut(@, file.name, File(op.value))],
                 "ok")}

\* DiskInsert that opens the file for append instead of replacing its contents
DiskInsertAppends(d, op) ==
    LET file == key2file(op.col, op.key)
        old == IF is_file(d, file) THEN d[op.col].ents[file.name].data ELSE <<>>
    IN  IF ~d[op.col].exists THEN {Outcome(d, "err")}
        ELSE {Outcome([d EXCEPT ![op.col].ents = MapPut(@, file.name, File(old \o op.value))],
                      "ok")}

\* fs::write is File::create(path)?.write_all(contents).  File::create opens
\* the file with create and truncate: a new or emptied regular file, an error
\* without the parent directory or on a directory
file_create(d, path) ==
    IF ~d[path.col].exists
        \/ (path.name \in DOMAIN d[path.col].ents /\ ~is_file(d, path))
    THEN {Outcome(d, "err")}
    ELSE {Outcome([d EXCEPT ![path.col].ents = MapPut(@, path.name, File(<<>>))], "ok")}

\* write_all that writes nothing
write_allNothing(d, path, bytes) == d

\* write_all on the handle File::create returned: the bytes go to offset 0 of
\* the file, over what it holds there, and what it holds beyond them stays
write_all(d, path, bytes) ==
    LET old == d[path.col].ents[path.name].data
    IN  [d EXCEPT ![path.col].ents =
             MapPut(@, path.name, File(bytes \o SubSeq(old, Len(bytes) + 1, Len(old))))]

DiskInsert(d, op) ==
    LET file == key2file(op.col, op.key)
    IN  {IF o.res = "ok" THEN Outcome(write_all(o.disk, file, op.value), "ok") ELSE o :
             o \in file_create(d, file)}

\* DiskDelete without the call of fs::remove_file
DiskDeleteKeepsFile(d, op) == {Outcome(d, "ok")}

\* DiskDelete that calls fs::remove_file without asking file.is_file()
DiskDeleteUnchecked(d, op) ==
    LET file == key2file(op.col, op.key)
    IN  IF is_file(d, file)
        THEN {Outcome(RemoveFiles(d, op.col, {file.name}), "ok")}
        ELSE {Outcome(d, "err")}

DiskDelete(d, op) ==
    LET file == key2file(op.col, op.key)
    IN  IF is_file(d, file)
        THEN {Outcome(RemoveFiles(d, op.col, {file.name}), "ok")}
        ELSE {Outcome(d, "ok")}

\* DiskDeletePrefix with key == prefix in place of key.starts_with(prefix)
DiskDeletePrefixExact(d, op) ==
    LET files == FileNames(d, op.col)
        path(nm) == PathOf(op.col, nm)
        same == {nm \in files : file2key(path(nm)) = Some(op.prefix)}
    IN  IF ~d[op.col].exists THEN {Outcome(d, "err")}
        ELSE IF op.prefix = <<>>
        THEN {Outcome(RemoveFiles(d, op.col, files), "ok")}
        ELSE {Outcome(RemoveFiles(d, op.col, same), "ok")}

\* DiskDeletePrefix that clears a column with fs::remove_dir_all(col_dir)
DiskDeletePrefixRemovesDir(d, op) ==
    LET files == FileNames(d, op.col)
        path(nm) == PathOf(op.col, nm)
        bad == {nm \in files : file2key(path(nm)) = Panic}
        matching == {nm \in files : /\ file2key(path(nm)).tag = "Some"
                                    /\ starts_with(file2key(path(nm)).val, op.prefix)}
    IN  IF ~d[op.col].exists THEN {Outcome(d, "err")}
        ELSE IF op.prefix = <<>>
        THEN {Outcome([d EXCEPT ![op.col] = NoDirectory], "ok")}
        ELSE IF bad = {}
        THEN {Outcome(RemoveFiles(d, op.col, matching), "ok")}
        ELSE {Outcome(RemoveFiles(d, op.col, gone), "panic") : gone \in SUBSET matching}

\* read_dir lists the entries in an unspecified order: when file2key panics on
\* one of them, any of the matching files may have been removed before it
DiskDeletePrefix(d, op) ==
    LET files == FileNames(d, op.col)
        path(nm) == PathOf(op.col, nm)
        bad == {nm \in files : file2key(path(nm)) = Panic}
        matching == {nm \in files : /\ file2key(path(nm)).tag = "Some"
                                    /\ starts_with(file2key(path(nm)).val, op.prefix)}
    IN  IF ~d[op.col].exists THEN {Outcome(d, "err")}
        ELSE IF op.prefix = <<>>
        THEN {Outcome(RemoveFiles(d, op.col, files), "ok")}
        ELSE IF bad = {}
        THEN {Outcome(RemoveFiles(d, op.col, matching), "ok")}
        ELSE {Outcome(RemoveFiles(d, op.col, gone), "panic") : gone \in SUBSET matching}

DiskOp(d, op) ==
    CASE op.op = "Insert" -> DiskInsert(d, op)
      [] op.op = "Delete" -> DiskDelete(d, op)
      [] op.op = "DeletePrefix" -> DiskDeletePrefix(d, op)

\* DiskWrite with the loop running over the operations from the last to the first
RECURSIVE DiskWriteLastFirst(_, _)
DiskWriteLastFirst(d, ops) ==
    IF ops = <<>> THEN {Outcome(d, "ok")}
    ELSE UNION {IF o.res = "ok"
                THEN DiskWriteLastFirst(o.disk, SubSeq(ops, 1, Len(ops) - 1))
                ELSE {o} :
                    o \in DiskOp(d, ops[Len(ops)])}

\* the loop over transaction.ops: `?` returns at the first operation that fails
RECURSIVE DiskWrite(_, _)
DiskWrite(d, ops) ==
    IF ops = <<>> THEN {Outcome(d, "ok")}
    ELSE UNION {IF o.res = "ok" THEN DiskWrite(o.disk, Tail(ops)) ELSE {o} :
                    o \in DiskOp(d, Head(ops))}

----------------------------------------------------------------------------
(* The in-memory engine: kvdb_memorydb::InMemory, a BTreeMap per column    *)

\* the mirror of no store
NoStore == <<>>

\* kvdb_memorydb::create
MemCreate(n) == [c \in 0..(n - 1) |-> EmptyMap]

\* kvdb::end_prefix: the least byte string greater than all with the prefix
RECURSIVE strip_ff(_)
strip_ff(s) ==
    IF s # <<>> /\ s[Len(s)] = 255 THEN strip_ff(SubSeq(s, 1, Len(s) - 1)) ELSE s

end_prefix(prefix) ==
    LET e == strip_ff(prefix)
    IN  IF e = <<>> THEN None
        ELSE Some([e EXCEPT ![Len(e)] = @ + 1])

\* the keys in BTreeMap::range(prefix .. end_prefix(prefix))
PrefixRange(map, prefix) ==
    LET e == end_prefix(prefix)
    IN  {k \in DOMAIN map : /\ ~LexLess(k, prefix)
                            /\ (e.tag = "Some" => LexLess(k, e.val))}

\* InMemory::write, one operation; an operation on a missing column is ignored
MemOp(m, op) ==
    IF op.col \notin DOMAIN m THEN m
    ELSE CASE op.op = "Insert" -> [m EXCEPT ![op.col] = MapPut(@, op.key, op.value)]
           [] op.op = "Delete" -> [m EXCEPT ![op.col] = MapRemove(@, {op.key})]
           [] op.op = "DeletePrefix" ->
                IF op.prefix = <<>> THEN [m EXCEPT ![op.col] = EmptyMap]
                ELSE [m EXCEPT ![op.col] = MapRemove(@, PrefixRange(@, op.prefix))]

RECURSIVE MemWrite(_, _)
MemWrite(m, ops) ==
    IF ops = <<>> THEN m ELSE MemWrite(MemOp(m, Head(ops)), Tail(ops))

\* the pairs of a column in BTreeMap order
RECURSIVE SortedPairs(_)
SortedPairs(map) ==
    IF DOMAIN map = {} THEN <<>>
    ELSE LET k == MinKey(DOMAIN map)
         IN  <<<<k, map[k]>>>> \o SortedPairs(MapRemove(map, {k}))

SelectPrefix(pairs, prefix) ==
    SelectSeq(pairs, LAMBDA kv : starts_with(kv[1], prefix))

\* InMemory::get: an error for a column the engine was not created with
MemGet(m, col, key) ==
    IF col \notin DOMAIN m THEN Err
    ELSE IF key \in DOMAIN m[col] THEN Ok(Some(m[col][key])) ELSE Ok(None)

\* InMemory::get_by_prefix: the value of the first key with the prefix
MemGetByPrefix(m, col, prefix) ==
    IF col \notin DOMAIN m THEN Err
    ELSE LET hits == SelectPrefix(SortedPairs(m[col]), prefix)
         IN  IF hits = <<>> THEN Ok(None) ELSE Ok(Some(hits[1][2]))

\* InMemory::iter: the pairs as Ok items, or the single item Err
MemIter(m, col) ==
    IF col \notin DOMAIN m THEN Err ELSE Ok(SortedPairs(m[col]))

\* InMemory::iter_with_prefix
MemIterWithPrefix(m, col, prefix) ==
    IF col \notin DOMAIN m THEN Err
    ELSE Ok(SelectPrefix(SortedPairs(m[col]), prefix))

----------------------------------------------------------------------------
(* InFile::open *)

\* the keys that the regular files of <root>/<col> decode to
DecodedKeys(d, col) ==
    {file2key(PathOf(col, nm)).val :
         nm \in {x \in FileNames(d, col) : file2key(PathOf(col, x)).tag = "Some"}}

\* the txn.put_vec calls for the given keys of one column.  read_dir lists the
\* entries in an unspecified order, so of several files that decode to one key
\* any may be staged last, and its contents are the value that stays
RECURSIVE KeyLoads(_, _, _)
KeyLoads(d, col, keys) ==
    IF keys = {} THEN {<<>>}
    ELSE LET k == MinKey(keys)
             rest == KeyLoads(d, col, keys \ {k})
         IN  {<<Insert(col, k, d[col].ents[nm].data)>> \o r :
                  nm \in {x \in FileNames(d, col) : file2key(PathOf(col, x)) = Some(k)},
                  r \in rest}

\* ColumnLoads of an open that stages no put_vec
ColumnLoadsNothing(d, col) == {<<>>}

ColumnLoads(d, col) == KeyLoads(d, col, DecodedKeys(d, col))

\* the transactions open may stage for the columns col..n-1
RECURSIVE LoadTxns(_, _, _)
LoadTxns(d, col, n) ==
    IF col >= n THEN {<<>>}
    ELSE {a \o b : a \in ColumnLoads(d, col), b \in LoadTxns(d, col + 1, n)}

\* the columns below n in which file2key panics on a file name
PanicCols(d, n) ==
    {c \in 0..(n - 1) : \E nm \in FileNames(d, c) : file2key(PathOf(c, nm)) = Panic}

RECURSIVE CreateDirs(_, _)
CreateDirs(d, upto) ==
    IF upto < 0 THEN d ELSE create_dir_all(CreateDirs(d, upto - 1), upto)

\* the outcomes [disk, mirror, res] of open(root, n): the columns are visited
\* in order, each directory is created before it is listed, and a panic in
\* file2key ends the call before any store exists
open(d, n) ==
    IF PanicCols(d, n) # {}
    THEN LET first == CHOOSE c \in PanicCols(d, n) : \A o \in PanicCols(d, n) : c <= o
         IN  {OpenOutcome(CreateDirs(d, first), NoStore, "panic")}
    ELSE {OpenOutcome(CreateDirs(d, n - 1), MemWrite(MemCreate(n), t), "ok") :
              t \in LoadTxns(d, 0, n)}

----------------------------------------------------------------------------
(* Reads: InFile delegates each of them to the in-memory engine *)

\* get that reads the file of the key in place of the mirror
getFromDisk(m, col, key) ==
    IF col \notin DOMAIN m THEN Err
    ELSE IF is_file(disk, key2file(col, key))
    THEN Ok(Some(disk[col].ents[key2file(col, key).name].data))
    ELSE Ok(None)

\* get that turns the error of the engine into an absent value
getAbsentOnError(m, col, key) ==
    IF MemGet(m, col, key) = Err THEN Ok(None) ELSE MemGet(m, col, key)

get(m, col, key) == MemGet(m, col, key)

get_by_prefix(m, col, prefix) == MemGetByPrefix(m, col, prefix)

iter(m, col) == MemIter(m, col)

\* iter_with_prefix that delegates to the iter of the engine
iterWithPrefixAll(m, col, prefix) == MemIter(m, col)

iter_with_prefix(m, col, prefix) == MemIterWithPrefix(m, col, prefix)

----------------------------------------------------------------------------
(* State machine *)

EmptyRoot == [c \in AllCols |-> NoDirectory]

Unit == Event("stage")
CodecIdle == CodecRun("idle", 0, <<>>, PathOf(0, <<>>), None)

IsOpen == opened

ReadCalls == {"get", "get_by_prefix", "iter", "iter_with_prefix"}

\* A read leaves the store and the disk as the call before it left them, so
\* whatever may follow a read may follow that call: the model takes the next
\* call from there, and a state that holds the answers of a read is an end
AfterRead == ret.call \in ReadCalls

\* what an earlier store with two columns wrote under the root
SeedTxn ==
    <<Insert(0, <<10>>, <<1>>), Insert(0, <<10, 255>>, <<1>>),
      Insert(0, <<255>>, <<2>>), Insert(1, <<10>>, <<2>>)>>

\* the roots a store is opened on: an empty one, and the one that the earlier
\* store left after open(root, 2) and write(SeedTxn)
SeedRoots ==
    {EmptyRoot} \cup
    {w.disk : w \in UNION {DiskWrite(o.disk, SeedTxn) : o \in open(EmptyRoot, 2)}}

\* the store returned by open(root, n)
InitStore ==
    /\ \E root \in SeedRoots, n \in NumColsChoices : \E o \in open(root, n) :
          /\ disk = o.disk
          /\ mirror = o.mirror
          /\ shadow = o.mirror
          /\ numCols = n
    /\ opened = TRUE
    /\ txn = <<>>
    /\ ret = Returned("open", "ok")
    /\ prev = NoPrev
    /\ clean = TRUE
    /\ steps = 0
    /\ conc = NoCalls

Init == InitStore /\ cstate = CodecIdle

\* the caller stages one operation: DBTransaction::put / delete / delete_prefix
Stage(op) ==
    /\ IsOpen
    /\ ~AfterRead
    /\ steps < MaxSteps
    /\ txn' = Append(txn, op)
    /\ ret' = Unit
    /\ prev' = NoPrev
    /\ steps' = steps + 1
    /\ UNCHANGED <<disk, numCols, opened, mirror, clean, shadow, cstate, conc>>

TxPut == \E c \in AllCols : \E k \in ColKeys(c), v \in Values : Stage(Insert(c, k, v))

TxDelete == \E c \in AllCols : \E k \in ColKeys(c) : Stage(Delete(c, k))

TxDeletePrefix == \E c \in AllCols : \E p \in ColPrefixes(c) : Stage(DeletePrefix(c, p))

Snapshot == SnapshotOf(disk, numCols, opened, mirror, clean)

\* WriteMirror of a write that never calls in_memory.write
WriteMirrorSkipped(m, ops, res) == m

\* WriteMirror of a write that calls in_memory.write before the disk operations
WriteMirrorAlways(m, ops, res) == MemWrite(m, ops)

\* the mirror after write: in_memory.write(transaction) is reached only when
\* every disk operation returned Ok
WriteMirror(m, ops, res) ==
    IF res = "ok" THEN MemWrite(m, ops) ELSE m

\* InFile::write(transaction)
Write ==
    /\ IsOpen
    /\ ~AfterRead
    /\ \E o \in DiskWrite(disk, txn) :
          /\ disk' = o.disk
          /\ mirror' = WriteMirror(mirror, txn, o.res)
          /\ shadow' = IF o.res = "ok" THEN MemWrite(shadow, txn) ELSE shadow
          /\ clean' = (clean /\ o.res = "ok")
          /\ ret' = WriteReturned(txn, o.res)
    /\ prev' = Snapshot
    /\ txn' = <<>>
    /\ UNCHANGED <<numCols, opened, steps, cstate, conc>>

\* the store is dropped and InFile::open is called on the same root
Open ==
    /\ ~AfterRead
    /\ txn = <<>>
    /\ \E n \in NumColsChoices : \E o \in open(disk, n) :
          /\ disk' = o.disk
          /\ mirror' = o.mirror
          /\ shadow' = o.mirror
          /\ numCols' = n
          /\ opened' = (o.res = "ok")
          /\ ret' = Returned("open", o.res)
    /\ prev' = Snapshot
    /\ clean' = TRUE
    /\ UNCHANGED <<txn, steps, cstate, conc>>

\* Reads between two transactions.  Each action asks the call for every
\* argument of the input sets and ret holds the answers: res[c, k] is what
\* get(c, k) returned
Read(result) ==
    /\ IsOpen
    /\ ~AfterRead
    /\ txn = <<>>
    /\ ret' = result
    /\ prev' = NoPrev
    /\ UNCHANGED <<disk, numCols, opened, mirror, txn, clean, shadow, steps, cstate, conc>>

Get ==
    Read(Returned("get", [c \in ReadCols, k \in Keys |-> get(mirror, c, k)]))

GetByPrefix ==
    Read(Returned("get_by_prefix",
                  [c \in ReadCols, p \in Prefixes |-> get_by_prefix(mirror, c, p)]))

Iter ==
    Read(Returned("iter", [c \in ReadCols |-> iter(mirror, c)]))

IterWithPrefix ==
    Read(Returned("iter_with_prefix",
                  [c \in ReadCols, p \in Prefixes |-> iter_with_prefix(mirror, c, p)]))

Next ==
    \/ TxPut
    \/ TxDelete
    \/ TxDeletePrefix
    \/ Write
    \/ Open
    \/ Get
    \/ GetByPrefix
    \/ Iter
    \/ IterWithPrefix

Spec == Init /\ [][Next]_vars

----------------------------------------------------------------------------
(* The disk changed from outside the store, between two calls *)

\* the file of key 0a: written, replaced by a directory or removed from outside
SharedName == key2file(0, <<10>>).name

External(d) ==
    /\ ~AfterRead
    /\ txn = <<>>
    /\ steps < MaxSteps
    /\ disk' = d
    /\ clean' = FALSE
    /\ steps' = steps + 1
    /\ ret' = Event("external")
    /\ prev' = NoPrev
    /\ UNCHANGED <<numCols, opened, mirror, txn, shadow, cstate, conc>>

\* column 0 is given every foreign name, column 1 the shortest one
ColForeign(c) == IF c = 0 THEN ForeignNames ELSE {<<97>>}

ExtWriteFile ==
    \E c \in AllCols : \E nm \in ColForeign(c) \cup {SharedName} :
        /\ disk[c].exists
        /\ nm \in DOMAIN disk[c].ents => disk[c].ents[nm].kind = "file"
        /\ External([disk EXCEPT ![c].ents = MapPut(@, nm, File(ForeignValue))])

ExtMkdir ==
    \E c \in AllCols, nm \in {SharedName} :
        /\ disk[c].exists
        /\ nm \notin DOMAIN disk[c].ents
        /\ External([disk EXCEPT ![c].ents = MapPut(@, nm, SubDir)])

ExtRemove ==
    \E c \in AllCols : \E nm \in DOMAIN disk[c].ents :
        External([disk EXCEPT ![c].ents = MapRemove(@, {nm})])

NextExt ==
    \/ Next
    \/ ExtWriteFile
    \/ ExtMkdir
    \/ ExtRemove

SpecExt == Init /\ [][NextExt]_vars

----------------------------------------------------------------------------
(* Runs of the path codec alone *)

RECURSIVE SeqsUpTo(_, _)
SeqsUpTo(S, n) ==
    IF n = 0 THEN {<<>>}
    ELSE LET shorter == SeqsUpTo(S, n - 1)
         IN  shorter \cup {<<x>> \o s : x \in S, s \in {t \in shorter : Len(t) = n - 1}}

RECURSIVE Flatten(_)
Flatten(ss) == IF ss = <<>> THEN <<>> ELSE Head(ss) \o Flatten(Tail(ss))

CodecKeys == SeqsUpTo(CodecBytes, MaxKeyLen)
CodecNames == {Flatten(cs) : cs \in SeqsUpTo(NameChars, MaxNameLen)}

InitCodec ==
    /\ InitStore
    /\ numCols = 1
    /\ \/ \E c \in AllCols, k \in CodecKeys :
             cstate = CodecRun("a key", c, k, PathOf(c, <<>>), None)
       \/ \E c \in AllCols, nm \in CodecNames :
             cstate = CodecRun("a file", c, <<>>, PathOf(c, nm), None)

StoreUnchanged ==
    UNCHANGED <<disk, numCols, opened, mirror, txn, ret, prev, clean, shadow, steps, conc>>

\* key2file(col, key)
EncodeKey ==
    /\ cstate.op = "a key"
    /\ cstate' = CodecRun("encoded", cstate.col, cstate.key,
                           key2file(cstate.col, cstate.key), None)
    /\ StoreUnchanged

\* file2key on the path key2file produced
DecodeEncoded ==
    /\ cstate.op = "encoded"
    /\ cstate' = CodecRun("roundtrip", cstate.col, cstate.key, cstate.path,
                           file2key(cstate.path))
    /\ StoreUnchanged

\* file2key on the path of any file name
DecodePath ==
    /\ cstate.op = "a file"
    /\ cstate' = CodecRun("decoded", cstate.col, <<>>, cstate.path,
                           file2key(cstate.path))
    /\ StoreUnchanged

NextCodec ==
    \/ EncodeKey
    \/ DecodeEncoded
    \/ DecodePath

SpecCodec == InitCodec /\ [][NextCodec]_vars

----------------------------------------------------------------------------
(* Two threads call write on one store at the same time.  InFile holds no  *)
(* lock of its own: each file system call of the loop is a step, and       *)
(* in_memory.write, which takes the lock of the engine, is one step.       *)

\* the operations of the concurrent transactions, and the transactions: one
\* or two operations each
ConcOps ==
    {Insert(0, <<10>>, <<1, 2>>), Insert(0, <<10>>, <<3>>), Delete(0, <<10>>),
     Insert(1, <<10>>, <<3>>)}
ConcTxns == {<<a>> : a \in ConcOps} \cup {<<a, b>> : a, b \in ConcOps}

Threads == {1, 2}
Other(w) == 3 - w

\* the store returned by open, and two write calls entered
InitConc ==
    /\ \E root \in SeedRoots, n \in NumColsChoices : \E o \in open(root, n) :
          /\ disk = o.disk
          /\ mirror = o.mirror
          /\ shadow = o.mirror
          /\ numCols = n
          /\ prev = SnapshotOf(o.disk, n, TRUE, o.mirror, TRUE)
    /\ opened = TRUE
    /\ txn = <<>>
    /\ ret = Returned("open", "ok")
    /\ clean = TRUE
    /\ steps = 0
    /\ cstate = CodecIdle
    /\ \E t1, t2 \in ConcTxns :
          conc = Concurrent(<<WriteCall(t1, "running", 0, FALSE, "closed"),
                              WriteCall(t2, "running", 0, FALSE, "closed")>>, FALSE, <<>>)

\* the operation whose disk side the call is at
InLoop(w) ==
    /\ conc.calls[w].res = "running"
    /\ conc.calls[w].done < Len(conc.calls[w].ops)

CurrentOp(w) == conc.calls[w].ops[conc.calls[w].done + 1]
CurrentFile(w) == key2file(CurrentOp(w).col, CurrentOp(w).key)

\* the call took a step and has not returned
InProgress(w) ==
    /\ conc.calls[w].res = "running"
    /\ \/ conc.calls[w].done > 0
       \/ conc.calls[w].seen
       \/ conc.calls[w].fd # "closed"

\* a step of w leaves w as call and the other call as other
StepOf(w, call, other, inMirror) ==
    conc' = Concurrent([conc.calls EXCEPT ![w] = call, ![Other(w)] = other],
                       conc.overlap \/ InProgress(Other(w)), inMirror)

\* the disk side of the current operation of w ended with the result
Ended(w, result) ==
    WriteCall(conc.calls[w].ops, IF result = "ok" THEN "running" ELSE result,
              conc.calls[w].done + 1, FALSE, "closed")

EndOp(w, result) == StepOf(w, Ended(w, result), conc.calls[Other(w)], conc.morder)

\* the other call when w removed the file: a handle it holds on that file
\* is on a file that no directory names any more
Unlinked(w) ==
    LET o == conc.calls[Other(w)]
    IN  IF o.fd = "open" /\ CurrentFile(Other(w)) = CurrentFile(w)
        THEN WriteCall(o.ops, o.res, o.done, o.seen, "unlinked")
        ELSE o

OnlyDiskAndCalls ==
    UNCHANGED <<numCols, opened, mirror, txn, ret, prev, clean, shadow, steps, cstate>>

\* DBOp::Insert, fs::write(file, value)?: File::create
ConcCreate(w) ==
    /\ InLoop(w)
    /\ CurrentOp(w).op = "Insert"
    /\ conc.calls[w].fd = "closed"
    /\ \E o \in file_create(disk, CurrentFile(w)) :
          /\ disk' = o.disk
          /\ IF o.res = "ok"
             THEN StepOf(w, WriteCall(conc.calls[w].ops, "running", conc.calls[w].done,
                                      FALSE, "open"),
                         conc.calls[Other(w)], conc.morder)
             ELSE EndOp(w, o.res)
    /\ OnlyDiskAndCalls

\* DBOp::Insert, fs::write(file, value)?: write_all on the open file; the
\* bytes of a file that was removed meanwhile are in no directory
ConcWriteAll(w) ==
    /\ InLoop(w)
    /\ CurrentOp(w).op = "Insert"
    /\ conc.calls[w].fd # "closed"
    /\ disk' = IF conc.calls[w].fd = "open"
               THEN write_all(disk, CurrentFile(w), CurrentOp(w).value)
               ELSE disk
    /\ EndOp(w, "ok")
    /\ OnlyDiskAndCalls

\* DBOp::Delete: if file.is_file()
ConcIsFile(w) ==
    /\ InLoop(w)
    /\ CurrentOp(w).op = "Delete"
    /\ ~conc.calls[w].seen
    /\ IF is_file(disk, CurrentFile(w))
       THEN StepOf(w, WriteCall(conc.calls[w].ops, "running", conc.calls[w].done,
                                TRUE, "closed"),
                   conc.calls[Other(w)], conc.morder)
       ELSE EndOp(w, "ok")
    /\ disk' = disk
    /\ OnlyDiskAndCalls

\* DBOp::Delete: fs::remove_file(file)?, an error when the file is gone
ConcRemove(w) ==
    /\ InLoop(w)
    /\ CurrentOp(w).op = "Delete"
    /\ conc.calls[w].seen
    /\ IF is_file(disk, CurrentFile(w))
       THEN /\ disk' = RemoveFiles(disk, CurrentFile(w).col, {CurrentFile(w).name})
            /\ StepOf(w, Ended(w, "ok"), Unlinked(w), conc.morder)
       ELSE /\ disk' = disk
            /\ EndOp(w, "err")
    /\ OnlyDiskAndCalls

\* self.in_memory.write(transaction), after the loop
ConcMirror(w) ==
    /\ conc.calls[w].res = "running"
    /\ conc.calls[w].done = Len(conc.calls[w].ops)
    /\ mirror' = WriteMirror(mirror, conc.calls[w].ops, "ok")
    /\ StepOf(w, WriteCall(conc.calls[w].ops, "ok", conc.calls[w].done, FALSE, "closed"),
              conc.calls[Other(w)], conc.morder \o conc.calls[w].ops)
    /\ UNCHANGED <<disk, numCols, opened, txn, ret, prev, clean, shadow, steps, cstate>>

NextConc ==
    \E w \in Threads :
        \/ ConcCreate(w)
        \/ ConcWriteAll(w)
        \/ ConcIsFile(w)
        \/ ConcRemove(w)
        \/ ConcMirror(w)

SpecConc == InitConc /\ [][NextConc]_vars

----------------------------------------------------------------------------
(* What the claims speak of *)

\* the (key, value) pairs the mirror holds for a column
MirrorPairs(m, c) == {<<k, m[c][k]>> : k \in DOMAIN m[c]}

\* the (decoded file name, file contents) pairs over the regular files of <root>/<c>
DiskPairs(d, c) ==
    {<<file2key(PathOf(c, nm)).val, d[c].ents[nm].data>> :
         nm \in {x \in FileNames(d, c) : file2key(PathOf(c, x)).tag = "Some"}}

\* the columns of the store
StoreCols == 0..(numCols - 1)

AfterWrite(result) == ret.call = "write" /\ ret.res = result /\ prev.valid

\* an operation acts on the pair (c, k): it inserts or deletes k in c, or it
\* deletes in c a prefix that k starts with
ActsOn(op, c, k) ==
    /\ op.col = c
    /\ \/ op.op \in {"Insert", "Delete"} /\ op.key = k
       \/ op.op = "DeletePrefix" /\ starts_with(k, op.prefix)

\* the index of the last operation of ops that acts on (c, k); 0 when there is none
LastOn(ops, c, k) ==
    LET at == {i \in 1..Len(ops) : ActsOn(ops[i], c, k)}
    IN  IF at = {} THEN 0 ELSE CHOOSE i \in at : \A j \in at : j <= i

----------------------------------------------------------------------------
(* Claims *)

\* C1: while every write since open returned Ok and nothing but the store
\* wrote under the root, for every column c of the store the (key, value)
\* pairs of the mirror are the (decoded file name, file contents) pairs of
\* the regular files in <root>/<c>.
C1_DiskMirrorConsistent ==
    (opened /\ clean) =>
        \A c \in StoreCols : MirrorPairs(mirror, c) = DiskPairs(disk, c)

\* a successful write of an Insert followed by the Delete of key ff, which
\* column 0 held, left other pairs in column 0
C1_Witness ==
    /\ AfterWrite("ok")
    /\ clean
    /\ Len(ret.ops) = 2
    /\ ret.ops[1].op = "Insert"
    /\ ret.ops[2] = Delete(0, <<255>>)
    /\ <<255>> \in DOMAIN prev.mirror[0]
    /\ <<255>> \notin DOMAIN mirror[0]
    /\ mirror[0] # EmptyMap

\* C2: when a store whose writes all returned Ok is dropped and open is called
\* on the same root with the same num_cols, the mirror of the new store has in
\* every column the keys and values the mirror of the dropped store had.
C2_LoadIdempotent ==
    (/\ ret.call = "open"
     /\ ret.res = "ok"
     /\ prev.valid
     /\ prev.opened
     /\ prev.clean
     /\ prev.numCols = numCols) => mirror = prev.mirror

\* a store with two columns was reopened after it wrote two operations, one of
\* which replaced the value of key 0a in column 0
C2_Witness ==
    /\ ret.call = "open"
    /\ ret.res = "ok"
    /\ prev.valid
    /\ prev.opened
    /\ prev.clean
    /\ prev.numCols = numCols
    /\ numCols = 2
    /\ steps = 2
    /\ <<10>> \in DOMAIN mirror[0]
    /\ mirror[0][<<10>>] = <<2>>
    /\ mirror[1] # EmptyMap

\* C3: after a successful write, for every column c of the store and key k:
\* if the last operation of the transaction that acts on (c, k) is
\* Insert(c, k, v) then get(c, k) returns v, and if it is Delete(c, k) then
\* get(c, k) returns absent.  (A DeletePrefix(c, p) with k starting with p is
\* an operation that acts on (c, k).)
C3_WriteReadConsistent ==
    AfterWrite("ok") =>
        \A c \in StoreCols, k \in Keys :
            LET i == LastOn(ret.ops, c, k)
            IN  /\ (i > 0 /\ ret.ops[i].op = "Insert")
                       => get(mirror, c, k) = Ok(Some(ret.ops[i].value))
                /\ (i > 0 /\ ret.ops[i].op = "Delete")
                       => get(mirror, c, k) = Ok(None)

\* a successful write replaced the value of key 0a in column 0 and deleted
\* key ff, which the column held
C3_Witness ==
    /\ AfterWrite("ok")
    /\ ret.ops = <<Insert(0, <<10>>, <<2>>), Delete(0, <<255>>)>>
    /\ get(prev.mirror, 0, <<10>>) = Ok(Some(<<1>>))
    /\ get(prev.mirror, 0, <<255>>) = Ok(Some(<<2>>))
    /\ get(mirror, 0, <<10>>) = Ok(Some(<<2>>))
    /\ get(mirror, 0, <<255>>) = Ok(None)

\* C4: after a successful write of the one operation DeletePrefix(c, p) on a
\* column c of the store, the mirror and the files of column c hold exactly
\* the pairs they held before whose key does not start with p; with the empty
\* prefix they hold none.
C4_DeletePrefixCorrect ==
    (/\ AfterWrite("ok")
     /\ Len(ret.ops) = 1
     /\ ret.ops[1].op = "DeletePrefix"
     /\ ret.ops[1].col \in StoreCols) =>
        LET c == ret.ops[1].col
            p == ret.ops[1].prefix
            Kept(S) == {kv \in S : ~starts_with(kv[1], p)}
        IN  /\ MirrorPairs(mirror, c) = Kept(MirrorPairs(prev.mirror, c))
            /\ DiskPairs(disk, c) = Kept(DiskPairs(prev.disk, c))
            /\ p = <<>> => MirrorPairs(mirror, c) = {} /\ DiskPairs(disk, c) = {}

\* DeletePrefix(0, 0a) on a column that held the keys 0a, 0aff and ff left ff
C4_Witness ==
    /\ AfterWrite("ok")
    /\ ret.ops = <<DeletePrefix(0, <<10>>)>>
    /\ DOMAIN prev.mirror[0] = Keys
    /\ DOMAIN mirror[0] = {<<255>>}
    /\ DiskPairs(disk, 0) = {<<(<<255>>), (<<2>>)>>}

\* C5: when write returns an error, the operation that failed is some i-th of
\* the transaction, the disk is what the operations 1..i-1 made of it, and
\* the mirror is what it was before the call.
C5_PartialFailure ==
    AfterWrite("err") =>
        /\ mirror = prev.mirror
        /\ \E i \in 1..Len(ret.ops) :
              \E o \in DiskWrite(prev.disk, SubSeq(ret.ops, 1, i - 1)) :
                  /\ o.res = "ok"
                  /\ disk = o.disk
                  /\ \E f \in DiskOp(o.disk, ret.ops[i]) : f.res = "err"

\* the second operation of a transaction failed: the file of the first is on
\* the disk, and the mirror does not hold its key
C5_Witness ==
    /\ AfterWrite("err")
    /\ Len(ret.ops) = 2
    /\ ret.ops[1] = Insert(0, <<10>>, <<2>>)
    /\ DiskPairs(disk, 0) = {<<(<<10>>), (<<2>>)>>}
    /\ DiskPairs(prev.disk, 0) = {}
    /\ mirror = prev.mirror
    /\ mirror[0] = EmptyMap

\* what the reads return when the engine holds the columns s
Answers(call, s) ==
    CASE call = "get" -> [c \in ReadCols, k \in Keys |-> MemGet(s, c, k)]
      [] call = "get_by_prefix" ->
             [c \in ReadCols, p \in Prefixes |-> MemGetByPrefix(s, c, p)]
      [] call = "iter" -> [c \in ReadCols |-> MemIter(s, c)]
      [] call = "iter_with_prefix" ->
             [c \in ReadCols, p \in Prefixes |-> MemIterWithPrefix(s, c, p)]

\* C6: whatever open, successful writes, failed writes and changes made to the
\* files from outside the store came before, get, get_by_prefix, iter and
\* iter_with_prefix return what the engine returns once it holds the mirror
\* loaded at open with exactly the transactions whose write returned Ok
\* applied in order (shadow), and they leave the disk as it was.
C6_ReadsReflectSuccessfulWrites ==
    [][ret'.call \in ReadCalls =>
          /\ ret'.res = Answers(ret'.call, shadow)
          /\ disk' = disk
          /\ mirror' = mirror]_vars

\* get answered with the value of key 0a that open loaded although its file
\* was removed from outside the store
C6_Witness ==
    /\ ret.call = "get"
    /\ ~clean
    /\ ret.res[0, <<10>>] = Ok(Some(<<1>>))
    /\ disk[0].exists
    /\ key2file(0, <<10>>).name \notin DOMAIN disk[0].ents

\* C7: get(c, k) returns an error, not Ok(absent), for every key k and every
\* column index c >= num_cols of the store.
C7_NonExistingColumn ==
    ret.call = "get" =>
        \A c \in ReadCols, k \in Keys : c >= numCols => ret.res[c, k] = Err

\* a store of one column answered get(1, 0a) with an error while the file of
\* key 0a is in <root>/1
C7_Witness ==
    /\ ret.call = "get"
    /\ numCols = 1
    /\ ret.res[1, <<10>>] = Err
    /\ ret.res[0, <<10>>] # Err
    /\ is_file(disk, key2file(1, <<10>>))

\* the items of an iteration, and that none comes twice
Items(seq) == {seq[i] : i \in 1..Len(seq)}
EachOnce(seq) == \A i, j \in 1..Len(seq) : seq[i] = seq[j] => i = j

\* C8: while every write since open returned Ok, for every column c of the
\* store iter(c) yields each pair stored in c (in the mirror and as a file of
\* <root>/<c>) once and nothing else, and iter_with_prefix(c, p) yields each
\* of those pairs whose key starts with p once and nothing else.
C8_IterationComplete ==
    /\ (clean /\ ret.call = "iter") =>
           \A c \in StoreCols :
               /\ ret.res[c].tag = "Ok"
               /\ EachOnce(ret.res[c].val)
               /\ Items(ret.res[c].val) = DiskPairs(disk, c)
               /\ Items(ret.res[c].val) = MirrorPairs(mirror, c)
    /\ (clean /\ ret.call = "iter_with_prefix") =>
           \A c \in StoreCols, p \in Prefixes :
               /\ ret.res[c, p].tag = "Ok"
               /\ EachOnce(ret.res[c, p].val)
               /\ Items(ret.res[c, p].val) =
                      {kv \in DiskPairs(disk, c) : starts_with(kv[1], p)}

\* after one operation that deleted key ff of column 0, iter_with_prefix(0, 0a)
\* yielded the two pairs of 0a and 0aff, and iter_with_prefix(0, ff) nothing
C8_Witness ==
    /\ ret.call = "iter_with_prefix"
    /\ clean
    /\ steps = 1
    /\ Len(ret.res[0, <<10>>].val) = 2
    /\ Len(ret.res[0, <<>>].val) = 2
    /\ ret.res[0, <<255>>] = Ok(<<>>)
    /\ numCols = 2
    /\ mirror[1] # EmptyMap

\* C9: file2key(key2file(c, k)) = Some(k) for every column c and key k, the
\* empty key too, and no other key of the column has the file name of k.
C9_RoundTrip ==
    cstate.op = "roundtrip" =>
        /\ cstate.out = Some(cstate.key)
        /\ \A k \in CodecKeys \ {cstate.key} :
              key2file(cstate.col, k).name # cstate.path.name

\* the key 0a ff was encoded to 0x0aff and decoded again
C9_Witness ==
    /\ cstate.op = "roundtrip"
    /\ cstate.key = <<10, 255>>
    /\ cstate.path.name = <<48, 120, 48, 97, 102, 102>>
    /\ cstate.out = Some(<<10, 255>>)

\* a string of hex digits that hex::decode accepts
ValidHex(str) ==
    /\ Len(str) % 2 = 0
    /\ \A i \in 1..Len(str) : str[i] \in (48..57) \cup (97..102) \cup (65..70)

\* a file name of the form 0x<hex>
Is0xHex(nm) ==
    /\ Len(nm) >= 2
    /\ SubSeq(nm, 1, 2) = Prefix0x
    /\ ValidHex(SubSeq(nm, 3, Len(nm)))

\* C10: file2key returns none for every path whose file name does not begin
\* with "0x" and for every path whose remainder after "0x" is not valid hex;
\* it returns a key only for names of the form 0x<hex>.
C10_DecoderRejectsForeignNames ==
    cstate.op = "decoded" =>
        /\ ~Is0xHex(cstate.path.name) => cstate.out = None
        /\ cstate.out.tag = "Some" => Is0xHex(cstate.path.name)

\* what the disk and the mirror hold for the key k of column c
DiskValue(d, c, k) ==
    IF is_file(d, key2file(c, k))
    THEN Some(d[c].ents[key2file(c, k).name].data)
    ELSE None

MirrorValue(m, c, k) == IF k \in DOMAIN m[c] THEN Some(m[c][k]) ELSE None

\* what an operation that acts on a pair leaves of it
LeftBy(op) == IF op.op = "Insert" THEN Some(op.value) ELSE None

\* C11: after a successful write, for every column c of the store and key k,
\* the disk and the mirror hold for (c, k) what the last operation of the
\* transaction that acts on (c, k) leaves (the value of an Insert, nothing
\* after a Delete or a DeletePrefix), and so agree on it; a pair on which no
\* operation acts is on the disk and in the mirror what it was before.
C11_SequenceOrder ==
    AfterWrite("ok") =>
        \A c \in StoreCols, k \in Keys :
            LET i == LastOn(ret.ops, c, k)
            IN  IF i = 0
                THEN /\ DiskValue(disk, c, k) = DiskValue(prev.disk, c, k)
                     /\ MirrorValue(mirror, c, k) = MirrorValue(prev.mirror, c, k)
                ELSE /\ DiskValue(disk, c, k) = LeftBy(ret.ops[i])
                     /\ MirrorValue(mirror, c, k) = LeftBy(ret.ops[i])

\* DeletePrefix(0, 0a) followed by Insert(0, 0aff, 02) left 0aff with the new
\* value and removed 0a, on the disk and in the mirror
C11_Witness ==
    /\ AfterWrite("ok")
    /\ ret.ops = <<DeletePrefix(0, <<10>>), Insert(0, <<10, 255>>, <<2>>)>>
    /\ DiskValue(prev.disk, 0, <<10>>) = Some(<<1>>)
    /\ DiskValue(prev.disk, 0, <<10, 255>>) = Some(<<1>>)
    /\ DiskValue(disk, 0, <<10>>) = None
    /\ DiskValue(disk, 0, <<10, 255>>) = Some(<<2>>)
    /\ MirrorValue(mirror, 0, <<10>>) = None
    /\ MirrorValue(mirror, 0, <<10, 255>>) = Some(<<2>>)

\* the key that a file name of the form 0x<hex> stands for
KeyOf0xHex(nm) == hex_decode(SubSeq(nm, 3, Len(nm))).val

\* every operation of the transaction is a DeletePrefix with a non-empty prefix
OnlyPrefixDeletes(ops) ==
    /\ ops # <<>>
    /\ \A i \in 1..Len(ops) : ops[i].op = "DeletePrefix" /\ ops[i].prefix # <<>>

\* C12: whatever the names of the regular files in the column directories,
\* open returns a store, and a write of DeletePrefix operations with
\* non-empty prefixes does not abort; a file whose name is not of the form
\* 0x<hex> contributes no key to the mirror that open loads and is not
\* removed by such a write.
C12_MalformedNamesSkipped ==
    /\ ret.call = "open" =>
           /\ ret.res = "ok"
           /\ \A c \in StoreCols : \A k \in DOMAIN mirror[c] :
                  \E nm \in FileNames(disk, c) :
                      /\ Is0xHex(nm)
                      /\ KeyOf0xHex(nm) = k
                      /\ disk[c].ents[nm].data = mirror[c][k]
    /\ (ret.call = "write" /\ prev.valid /\ OnlyPrefixDeletes(ret.ops)) =>
           /\ ret.res # "panic"
           /\ \A c \in AllCols : \A nm \in FileNames(prev.disk, c) :
                  ~Is0xHex(nm) =>
                      /\ nm \in FileNames(disk, c)
                      /\ disk[c].ents[nm] = prev.disk[c].ents[nm]

\* the (key, contents) pairs of the regular files of <root>/<c> whose names
\* are of the form 0x<hex>
WellFormedPairs(d, c) ==
    {<<KeyOf0xHex(nm), d[c].ents[nm].data>> :
         nm \in {x \in FileNames(d, c) : Is0xHex(x)}}

\* C13: when open returns Ok, on any disk, for every column c of the store
\* the mirror holds one entry (key, contents) for each regular file of
\* <root>/<c> whose name decodes to key and no other entry; directories in
\* <root>/<c> contribute nothing.
C13_OpenPostcondition ==
    (ret.call = "open" /\ ret.res = "ok") =>
        \A c \in StoreCols : MirrorPairs(mirror, c) = WellFormedPairs(disk, c)

\* write was called with the one operation Delete(c, k) on a column of the
\* store while no regular file was at the path of (c, k)
DeletedAbsent ==
    /\ ret.call = "write"
    /\ prev.valid
    /\ Len(ret.ops) = 1
    /\ ret.ops[1].op = "Delete"
    /\ ret.ops[1].col \in StoreCols
    /\ ~is_file(prev.disk, key2file(ret.ops[1].col, ret.ops[1].key))

\* C14 as stated: a write of Delete(c, k), with c a column of the store and
\* no regular file at the path of (c, k), returns Ok and leaves every file on
\* the disk and every entry of the mirror unchanged.
C14_DeleteAbsentNoOp ==
    DeletedAbsent =>
        /\ ret.res = "ok"
        /\ disk = prev.disk
        /\ mirror = prev.mirror

\* C14 amended: a write of Delete(c, k), with c a column of the store and no
\* regular file at the path of (c, k), returns Ok, leaves every file on the
\* disk unchanged and leaves every entry of the mirror unchanged but the one
\* of (c, k), which it removes when the mirror still holds one.
C14_DeleteAbsentAmended ==
    DeletedAbsent =>
        /\ ret.res = "ok"
        /\ disk = prev.disk
        /\ mirror = [prev.mirror EXCEPT ![ret.ops[1].col] =
                                           MapRemove(@, {ret.ops[1].key})]

\* Delete(0, ff) on a store that holds other keys and neither a file nor an
\* entry for ff returned Ok and changed nothing
C14_Witness ==
    /\ DeletedAbsent
    /\ ret.ops = <<Delete(0, <<255>>)>>
    /\ ret.res = "ok"
    /\ <<255>> \notin DOMAIN prev.mirror[0]
    /\ prev.mirror[0] # EmptyMap
    /\ FileNames(prev.disk, 0) # {}
    /\ disk = prev.disk
    /\ mirror = prev.mirror

\* the entry of the name is in <root>/<c> as it was before the call
EntryKept(c, nm) ==
    /\ nm \in DOMAIN disk[c].ents
    /\ disk[c].ents[nm] = prev.disk[c].ents[nm]

\* C15: a write of the one operation DeletePrefix(c, p) leaves unchanged every
\* entry of <root>/<c> that is no regular file and all files and mirror
\* entries of the other columns; with a non-empty p it also leaves unchanged
\* every file of <root>/<c> whose name does not decode (is not of the form
\* 0x<hex>) and every file whose decoded key does not start with p; with the
\* empty p, when it returns Ok, no regular file is left in <root>/<c>.
C15_DeletePrefixFrame ==
    (/\ ret.call = "write"
     /\ prev.valid
     /\ Len(ret.ops) = 1
     /\ ret.ops[1].op = "DeletePrefix") =>
        LET c == ret.ops[1].col
            p == ret.ops[1].prefix
        IN  /\ \A nm \in DOMAIN prev.disk[c].ents \ FileNames(prev.disk, c) :
                  EntryKept(c, nm)
            /\ \A o \in AllCols \ {c} : disk[o] = prev.disk[o]
            /\ \A o \in StoreCols \ {c} : mirror[o] = prev.mirror[o]
            /\ p # <<>> =>
                  \A nm \in FileNames(prev.disk, c) :
                      (~Is0xHex(nm) \/ ~starts_with(KeyOf0xHex(nm), p))
                          => EntryKept(c, nm)
            /\ (p = <<>> /\ ret.res = "ok") => FileNames(disk, c) = {}

\* the directories that were under the root before the call, the column
\* directories and the directories inside them, are there after it
DirsKept ==
    \A c \in AllCols :
        /\ prev.disk[c].exists => disk[c].exists
        /\ \A nm \in DOMAIN prev.disk[c].ents :
              prev.disk[c].ents[nm].kind = "dir" =>
                  /\ nm \in DOMAIN disk[c].ents
                  /\ disk[c].ents[nm].kind = "dir"

\* C16: while a store is open, the directory <root>/<c> exists for every
\* column c of the store, whatever writes, successful or failed, came after
\* open; and no call of open or write removes a directory.
C16_ColumnDirsStay ==
    /\ opened => \A c \in StoreCols : disk[c].exists
    /\ (ret.call \in {"open", "write"} /\ prev.valid) => DirsKept

\* a successful write of DeletePrefix(0, <<>>) removed every file of
\* <root>/0 and the directory is still there
C16_Witness ==
    /\ AfterWrite("ok")
    /\ ret.ops = <<DeletePrefix(0, <<>>)>>
    /\ FileNames(prev.disk, 0) # {}
    /\ DOMAIN disk[0].ents = {}
    /\ disk[0].exists

\* both concurrent calls returned Ok
BothOk == \A w \in Threads : conc.calls[w].res = "ok"

\* C17: two write calls on one store with their steps interleaved.  Once both
\* returned Ok the mirror holds their transactions in the order of their
\* in_memory.write calls, and mirror and disk agree when neither call took a
\* step while the other was under way; there is an interleaving (the
\* witness) after which both returned Ok and mirror and disk differ.
C17_ConcurrentWriters ==
    (conc # NoCalls /\ BothOk) =>
        /\ mirror = MemWrite(prev.mirror, conc.morder)
        /\ ~conc.overlap =>
              \A c \in StoreCols : MirrorPairs(mirror, c) = DiskPairs(disk, c)

\* both calls returned Ok, the file of key 0a holds the value of one Insert
\* and the mirror the value of the other
C17_Witness ==
    /\ conc # NoCalls
    /\ BothOk
    /\ conc.calls[1].ops = <<Insert(0, <<10>>, <<1, 2>>)>>
    /\ conc.calls[2].ops = <<Insert(0, <<10>>, <<3>>)>>
    /\ DiskValue(disk, 0, <<10>>) = Some(<<1, 2>>)
    /\ MirrorValue(mirror, 0, <<10>>) = Some(<<3>>)

\* a file name that is "0x" followed by pairs of the digits 0-9 and a-f
IsLower0xHex(nm) ==
    /\ Len(nm) >= 2
    /\ nm[1] = 48
    /\ nm[2] = 120
    /\ Len(nm) % 2 = 0
    /\ \A i \in 3..Len(nm) : nm[i] \in (48..57) \cup (97..102)

\* the index of the last Insert of ops for the key k of column c; 0 when there is none
LastInsert(ops, c, k) ==
    LET at == {i \in 1..Len(ops) : ops[i].op = "Insert" /\ ops[i].col = c /\ ops[i].key = k}
    IN  IF at = {} THEN 0 ELSE CHOOSE i \in at : \A j \in at : j <= i

\* every regular file of d holds the value of the last Insert of ops for its
\* key, and a file for whose key ops has no Insert is as it was in d0
ContentsAfter(d0, d, ops) ==
    \A c \in AllCols : \A nm \in FileNames(d, c) :
        LET i == LastInsert(ops, c, KeyOf0xHex(nm))
        IN  IF i = 0
            THEN nm \in FileNames(d0, c) /\ d[c].ents[nm] = d0[c].ents[nm]
            ELSE d[c].ents[nm].data = ops[i].value

\* C18: in every state reached from an empty root by open and write calls,
\* every regular file of a column directory is named "0x" followed by
\* lower-case hex, no two files of a column decode to the same key, and each
\* file holds the value last inserted for its key: on the root an earlier
\* store left, the value of the last Insert of its transaction; after open,
\* what the file held before; after a write, the value of the last Insert
\* among the operations the write carried out (all of them when it returned
\* Ok, those before the failing one otherwise), or what the file held before
\* when none of them inserted its key.
C18_CanonicalLayout ==
    /\ \A c \in AllCols : \A nm \in FileNames(disk, c) : IsLower0xHex(nm)
    /\ \A c \in AllCols : \A n1, n2 \in FileNames(disk, c) :
           KeyOf0xHex(n1) = KeyOf0xHex(n2) => n1 = n2
    /\ (ret.call = "open" /\ ~prev.valid) => ContentsAfter(EmptyRoot, disk, SeedTxn)
    /\ (ret.call = "open" /\ prev.valid) => ContentsAfter(prev.disk, disk, <<>>)
    /\ AfterWrite("ok") => ContentsAfter(prev.disk, disk, ret.ops)
    /\ (ret.call = "write" /\ prev.valid /\ ret.res # "ok") =>
           \E n \in 0..(Len(ret.ops) - 1) :
               ContentsAfter(prev.disk, disk, SubSeq(ret.ops, 1, n))

\* a write inserted key 0a twice: the file 0x0a, which held 01, holds the
\* value of the second Insert
C18_Witness ==
    /\ AfterWrite("ok")
    /\ ret.ops = <<Insert(0, <<10>>, <<1>>), Insert(0, <<10>>, <<2>>)>>
    /\ DiskValue(prev.disk, 0, <<10>>) = Some(<<1>>)
    /\ FileNames(disk, 0) = {<<48, 120, 48, 97>>, <<48, 120, 48, 97, 102, 102>>,
                             <<48, 120, 102, 102>>}
    /\ disk[0].ents[<<48, 120, 48, 97>>].data = <<2>>

\* the columns c >= num_cols without a directory under the root into which
\* the transaction inserts
InsertsIntoMissing(ops, n, d) ==
    {ops[i].col : i \in {j \in 1..Len(ops) : /\ ops[j].op = "Insert"
                                               /\ ops[j].col >= n
                                               /\ ~d[ops[j].col].exists}}

\* C19: a write whose transaction holds an Insert into a column c >= num_cols
\* that has no directory under the root returns an error, leaves the root
\* without a directory and without a file for c, and leaves the mirror as
\* it was.
C19_InsertMissingColumn ==
    (ret.call = "write" /\ prev.valid) =>
        \A c \in InsertsIntoMissing(ret.ops, prev.numCols, prev.disk) :
            /\ ret.res = "err"
            /\ ~disk[c].exists
            /\ DOMAIN disk[c].ents = {}
            /\ mirror = prev.mirror

\* a store with one column on a root without the directory 1 was given
\* Insert(1, 0a, 01) alone
C19_Witness ==
    /\ ret.call = "write"
    /\ prev.valid
    /\ prev.numCols = 1
    /\ ret.ops = <<Insert(1, <<10>>, <<1>>)>>
    /\ InsertsIntoMissing(ret.ops, prev.numCols, prev.disk) = {1}
    /\ ret.res = "err"
    /\ disk = prev.disk

====
